---------------------------- MODULE Spec2Model ----------------------------
(***************************************************************************)
(* A model of the tree utility: the modular program (tree.rs,              *)
(* gitignore.rs, stats.rs, config.rs) and the standalone program of        *)
(* main.rs.  Strings are sequences of character codes, a path is a         *)
(* sequence of names (its components), and the file system is a value      *)
(* fixed for the duration of a run.                                        *)
(***************************************************************************)
EXTENDS Integers, Sequences, FiniteSets, TLC

VARIABLES
    config,       \* the Config of the run (read-only)
    fsys,         \* the file system of the run (read-only)
    patterns,     \* GitignoreManager.patterns
    pc,           \* position of generate / generate_tree
    path_idx,     \* position of the `for path in &config.paths` loop
    path_stats,   \* FileStats of the path being traversed
    stack,        \* the activation records of visit_dir, innermost last
    path_tree,    \* the String the level-0 visit_dir returned
    tree_output,  \* the buffer of generate
    sink,         \* what output_result handed to stdout / the file, in order
    trace,        \* history: the entries read so far and what became of each
    m_in,         \* input of the matcher under test
    m_out         \* result of the matcher under test

vars == <<config, fsys, patterns, pc, path_idx, path_stats, stack, path_tree,
          tree_output, sink, trace, m_in, m_out>>

walk_vars == <<config, fsys, patterns, pc, path_idx, path_stats, stack,
               path_tree, tree_output, sink, trace>>

(***************************************************************************)
(* Characters and strings.                                                 *)
(***************************************************************************)
SPACE == 32
BANG == 33
HASH == 35
STAR == 42
DOT == 46
SLASH == 47
QMARK == 63

\* ".git" and ".gitignore"
DOT_GIT == <<DOT, 103, 105, 116>>
DOT_GITIGNORE == <<DOT, 103, 105, 116, 105, 103, 110, 111, 114, 101>>

starts_with(s, pre) ==
    /\ Len(pre) <= Len(s)
    /\ SubSeq(s, 1, Len(pre)) = pre

ends_with(s, suf) ==
    /\ Len(suf) <= Len(s)
    /\ SubSeq(s, Len(s) - Len(suf) + 1, Len(s)) = suf

contains(s, sub) ==
    \E i \in 1..(Len(s) - Len(sub) + 1) : SubSeq(s, i, i + Len(sub) - 1) = sub

RECURSIVE trim_start_matches(_, _)
trim_start_matches(s, c) ==
    IF s # <<>> /\ Head(s) = c THEN trim_start_matches(Tail(s), c) ELSE s

RECURSIVE trim_end_matches(_, _)
trim_end_matches(s, c) ==
    IF s # <<>> /\ s[Len(s)] = c
    THEN trim_end_matches(SubSeq(s, 1, Len(s) - 1), c)
    ELSE s

\* str::trim, over the one whitespace character the model's files hold
trim(s) == trim_end_matches(trim_start_matches(s, SPACE), SPACE)

SeqsUpTo(A, n) == UNION {[1..k -> A] : k \in 0..n}

\* OsString / str ordering: byte-wise lexicographic, a proper prefix first
RECURSIVE cmp_less(_, _)
cmp_less(a, b) ==
    IF b = <<>> THEN FALSE
    ELSE IF a = <<>> THEN TRUE
    ELSE IF Head(a) # Head(b) THEN Head(a) < Head(b)
    ELSE cmp_less(Tail(a), Tail(b))

\* Path::display / to_string_lossy: the components joined by '/'
RECURSIVE path_string(_)
path_string(p) ==
    IF p = <<>> THEN <<>>
    ELSE IF Len(p) = 1 THEN p[1]
    ELSE p[1] \o <<SLASH>> \o path_string(Tail(p))

\* Path::file_name().unwrap_or_default()
file_name(path) == IF path = <<>> THEN <<>> ELSE path[Len(path)]

\* Path::strip_prefix(base).map(to_string).unwrap_or_default()
strip_prefix(path, base) ==
    IF Len(base) <= Len(path) /\ SubSeq(path, 1, Len(base)) = base
    THEN path_string(SubSeq(path, Len(base) + 1, Len(path)))
    ELSE <<>>

(***************************************************************************)
(* gitignore.rs: the wildcard matcher.                                     *)
(***************************************************************************)
\* match_helper with `*` consuming at least one character
RECURSIVE match_helper_star_one(_, _, _, _)
match_helper_star_one(p, t, p_idx, t_idx) ==
    IF p_idx = Len(p) THEN t_idx = Len(t)
    ELSE IF t_idx = Len(t)
    THEN \A k \in (p_idx + 1)..Len(p) : p[k] = STAR
    ELSE IF p[p_idx + 1] = STAR
    THEN \E i \in (t_idx + 1)..Len(t) : match_helper_star_one(p, t, p_idx + 1, i)
    ELSE IF p[p_idx + 1] = QMARK
    THEN match_helper_star_one(p, t, p_idx + 1, t_idx + 1)
    ELSE /\ p[p_idx + 1] = t[t_idx + 1]
         /\ match_helper_star_one(p, t, p_idx + 1, t_idx + 1)

\* p_idx and t_idx are the 0-based indices of the source
RECURSIVE match_helper(_, _, _, _)
match_helper(p, t, p_idx, t_idx) ==
    IF p_idx = Len(p) THEN t_idx = Len(t)
    ELSE IF t_idx = Len(t)
    THEN \A k \in (p_idx + 1)..Len(p) : p[k] = STAR
    ELSE IF p[p_idx + 1] = STAR
    THEN \E i \in t_idx..Len(t) : match_helper(p, t, p_idx + 1, i)
    ELSE IF p[p_idx + 1] = QMARK
    THEN match_helper(p, t, p_idx + 1, t_idx + 1)
    ELSE /\ p[p_idx + 1] = t[t_idx + 1]
         /\ match_helper(p, t, p_idx + 1, t_idx + 1)

wildcard_match(pattern, text) == match_helper(pattern, text, 0, 0)

matches_filename_pattern(filename, pattern) == wildcard_match(pattern, filename)

(***************************************************************************)
(* gitignore.rs: one pattern against one entry, and the pattern list.      *)
(***************************************************************************)
\* matches_pattern with an anchored pattern matching the end of the relative
\* path as well
matches_pattern_suffix(filename, relative_path, pattern, is_dir) ==
    LET is_negation == starts_with(pattern, <<BANG>>)
        p1 == IF is_negation THEN Tail(pattern) ELSE pattern
        is_absolute_pattern == starts_with(p1, <<SLASH>>)
        p2 == trim_start_matches(p1, SLASH)
        is_directory_pattern == ends_with(p2, <<SLASH>>)
        p3 == trim_end_matches(p2, SLASH)
    IN  IF is_absolute_pattern
        THEN /\ relative_path = p3 \/ ends_with(relative_path, <<SLASH>> \o p3)
             /\ ~is_negation
        ELSE IF is_directory_pattern /\ is_dir
        THEN /\ filename = p3 \/ contains(relative_path, <<SLASH>> \o p3 \o <<SLASH>>)
             /\ ~is_negation
        ELSE /\ \/ matches_filename_pattern(filename, p3)
                \/ contains(relative_path, <<SLASH>> \o p3)
             /\ ~is_negation

matches_pattern(filename, relative_path, pattern, is_dir) ==
    LET is_negation == starts_with(pattern, <<BANG>>)
        p1 == IF is_negation THEN Tail(pattern) ELSE pattern
        is_absolute_pattern == starts_with(p1, <<SLASH>>)
        p2 == trim_start_matches(p1, SLASH)
        is_directory_pattern == ends_with(p2, <<SLASH>>)
        p3 == trim_end_matches(p2, SLASH)
    IN  IF is_absolute_pattern
        THEN relative_path = p3 /\ ~is_negation
        ELSE IF is_directory_pattern /\ is_dir
        THEN /\ filename = p3 \/ contains(relative_path, <<SLASH>> \o p3 \o <<SLASH>>)
             /\ ~is_negation
        ELSE /\ \/ matches_filename_pattern(filename, p3)
                \/ contains(relative_path, <<SLASH>> \o p3)
             /\ ~is_negation

\* GitignoreManager::matches over an explicit pattern list; is_dir is what
\* path.is_dir() answers for the entry
manager_matches(pats, path, base_dir, is_dir) ==
    IF pats = <<>> THEN FALSE
    ELSE LET filename == file_name(path)
             relative_path == strip_prefix(path, base_dir)
         IN  \E i \in 1..Len(pats) :
                 matches_pattern(filename, relative_path, pats[i], is_dir)


(***************************************************************************)
(* The file system.  Two directories can be given as top-level paths:      *)
(*   r/  .git/  [.gitignore]  a  s/  z                                     *)
(*   r/s/  .git/  a  d/            r/s/d/  c                               *)
(*   t/  a  u/                                                             *)
(* A run draws which paths are unreadable and what r/.gitignore holds (if  *)
(* it exists).                                                             *)
(***************************************************************************)
S_a == <<97>>
S_c == <<99>>
S_d == <<100>>
S_r == <<114>>
S_s == <<115>>
S_t == <<116>>
S_u == <<117>>
S_w == <<119>>
S_z == <<122>>

ROOT_R == <<S_r>>
ROOT_T == <<S_t>>
Roots == {ROOT_R, ROOT_T}

\* the directory the relative paths of the run are resolved against
CWD == <<S_w>>

TreeDirs ==
    { ROOT_R, <<S_r, DOT_GIT>>, <<S_r, S_s>>,
      <<S_r, S_s, DOT_GIT>>, <<S_r, S_s, S_d>>, ROOT_T, <<S_t, S_u>> }

TreeFiles ==
    { <<S_r, S_a>>, <<S_r, S_z>>, <<S_r, S_s, S_a>>, <<S_r, S_s, S_d, S_c>>,
      <<S_t, S_a>> }

IGNORE_R == <<S_r, DOT_GITIGNORE>>

\* the lines r/.gitignore may hold: "#c", "", "/a", "z"  or  "!s", " ", "*b"
IgnoreContents ==
    { << <<HASH, 99>>, <<>>, <<SLASH>> \o S_a, S_z >>,
      << <<BANG>> \o S_s, <<SPACE>>, <<STAR, 98>> >> }

UnreadableChoices == { {}, {<<S_r, S_s, S_d>>}, {ROOT_T, IGNORE_R} }

FileSystems ==
    { [dirs |-> TreeDirs, files |-> TreeFiles, unreadable |-> u,
       content |-> <<>>] : u \in UnreadableChoices }
    \cup
    { [dirs |-> TreeDirs, files |-> TreeFiles \cup {IGNORE_R}, unreadable |-> u,
       content |-> c] : u \in UnreadableChoices, c \in IgnoreContents }

\* Path::exists / Path::is_dir
exists(path) == path \in fsys.dirs \cup fsys.files

path_is_dir(path) == path \in fsys.dirs

\* fs::read_dir(dir): whether the listing succeeds, and the names it yields
read_dir_ok(dir) == dir \in fsys.dirs /\ dir \notin fsys.unreadable

read_dir(dir) ==
    { file_name(p) : p \in { q \in fsys.dirs \cup fsys.files :
                               Len(q) = Len(dir) + 1 /\ SubSeq(q, 1, Len(dir)) = dir } }

\* the orders a listing may come in: an enumeration of the names, its
\* rotations and their reversals
RECURSIVE SetToSeq(_)
SetToSeq(S) ==
    IF S = {} THEN <<>>
    ELSE LET x == CHOOSE y \in S : TRUE IN <<x>> \o SetToSeq(S \ {x})

Reverse(s) == [i \in 1..Len(s) |-> s[Len(s) + 1 - i]]

ListingOrders(S) ==
    LET e == SetToSeq(S)
        n == Len(e)
        rot(k) == SubSeq(e, k, n) \o SubSeq(e, 1, k - 1)
    IN  IF n = 0 THEN {<<>>}
        ELSE {rot(k) : k \in 1..n} \cup {Reverse(rot(k)) : k \in 1..n}

\* Path::canonicalize().unwrap_or_else(|_| path): absolute when the path exists
canonicalize(path) == IF exists(path) THEN <<<<>>>> \o CWD \o path ELSE path

(***************************************************************************)
(* gitignore.rs: loading the patterns.                                     *)
(***************************************************************************)
read_gitignore(dir) ==
    LET gitignore_path == dir \o <<DOT_GITIGNORE>>
    IN  IF ~exists(gitignore_path) THEN <<>>
        ELSE IF gitignore_path \in fsys.unreadable THEN <<>>
        ELSE SelectSeq(fsys.content,
                       LAMBDA line : trim(line) # <<>>
                                     /\ ~starts_with(trim(line), <<HASH>>))

(***************************************************************************)
(* tree.rs: the configuration, the rendered lines and the entry filter.    *)
(***************************************************************************)
MaxDepthArg == 1

\* the lists of top-level paths: one root or both, in either order
PathLists ==
    { p \in SeqsUpTo(Roots, Cardinality(Roots)) \ {<<>>} :
        \A i, j \in 1..Len(p) : p[i] = p[j] => i = j }

\* Option<usize>: the empty set is None, {k} is Some(k).  config.output is
\* read by output_result alone and is drawn there.
Configs ==
    [ paths : PathLists,
      all : BOOLEAN, dirs_only : BOOLEAN, no_indent : BOOLEAN,
      full_path : BOOLEAN, gitignore : BOOLEAN,
      max_depth : {{}} \cup {{k} : k \in 0..MaxDepthArg} ]

\* the box-drawing connectors (tee, corner, bar) and the four blanks, in ASCII
CONNECTOR_MID == "|-- "
CONNECTOR_LAST == "'-- "
PREFIX_MID == "|   "
PREFIX_LAST == "    "

\* One line of output: prefix, connector and name are its text, in
\* that order; path records which entry the line was written for.  The
\* summary line keeps the two numbers it formats.
RootLine(display_path, dir) ==
    [kind |-> "root", prefix |-> <<>>, connector |-> "",
     name |-> display_path \o <<SLASH>>, path |-> dir]

EntryLine(prefix, connector, display_name, path) ==
    [kind |-> "entry", prefix |-> prefix, connector |-> connector,
     name |-> display_name, path |-> path]

BlankLine ==
    [kind |-> "blank", prefix |-> <<>>, connector |-> "", name |-> <<>>,
     path |-> <<>>]

SummaryLine(dirs, files) ==
    [kind |-> "summary", prefix |-> <<>>, connector |-> "",
     name |-> <<dirs, files>>, path |-> <<>>]

new_stats == [dirs |-> 0, files |-> 0]

should_include_entry(path, base_dir) ==
    LET name == file_name(path)
        dir == path_is_dir(path)
    IN  /\ ~(~config.all /\ starts_with(name, <<DOT>>))
        /\ ~(config.dirs_only /\ ~dir)
        /\ ~(config.gitignore /\ path = base_dir \o <<DOT_GIT>>)
        /\ ~(config.gitignore /\ manager_matches(patterns, path, base_dir, dir))

format_display_name(path, name, dir) ==
    IF config.full_path THEN path_string(canonicalize(path))
    ELSE IF dir THEN name \o <<SLASH>>
    ELSE name

RECURSIVE insert_by_name(_, _)
insert_by_name(x, sorted) ==
    IF sorted = <<>> THEN <<x>>
    ELSE IF cmp_less(x, Head(sorted)) THEN <<x>> \o sorted
    ELSE <<Head(sorted)>> \o insert_by_name(x, Tail(sorted))

\* sort_by_name leaving the listing as it came
sort_by_name_skipped(entries) == entries

\* entries.sort_by(|a, b| a.file_name().cmp(&b.file_name()))
RECURSIVE sort_by_name(_)
sort_by_name(entries) ==
    IF entries = <<>> THEN <<>>
    ELSE insert_by_name(entries[Len(entries)],
                        sort_by_name(SubSeq(entries, 1, Len(entries) - 1)))

\* the connector of an entry and the prefix extension of its children
connector_of(is_last) ==
    IF config.no_indent THEN <<"", "">>
    ELSE IF is_last THEN <<CONNECTOR_LAST, PREFIX_LAST>>
    ELSE <<CONNECTOR_MID, PREFIX_MID>>

\* count_entry counting a directory as a file as well
count_entry_twice(stats, dir) ==
    IF dir THEN [stats EXCEPT !.dirs = @ + 1, !.files = @ + 1]
    ELSE [stats EXCEPT !.files = @ + 1]

\* the statistics after an included entry
count_entry(stats, dir) ==
    IF dir THEN [stats EXCEPT !.dirs = @ + 1] ELSE [stats EXCEPT !.files = @ + 1]

(***************************************************************************)
(* tree.rs: TreeGenerator::generate and visit_dir.  An activation of       *)
(* visit_dir is a frame: phase "enter" before its listing is read, "loop"  *)
(* while it iterates over `entries` (index = entries already handled).     *)
(***************************************************************************)
Frame(dir, base_dir, level, prefix) ==
    [dir |-> dir, base_dir |-> base_dir, level |-> level, prefix |-> prefix,
     phase |-> "enter", entries |-> <<>>, index |-> 0, output |-> <<>>]

Top == stack[Len(stack)]

Pop == SubSeq(stack, 1, Len(stack) - 1)

Event(path, what) == [path |-> path, what |-> what]

WalkInit ==
    /\ config \in Configs
    /\ fsys \in FileSystems
    /\ patterns = <<>>
    /\ pc = "loop"
    /\ path_idx = 0
    /\ path_stats = new_stats
    /\ stack = <<>>
    /\ path_tree = <<>>
    /\ tree_output = <<>>
    /\ sink = <<>>
    /\ trace = <<>>
    /\ m_in = <<>>
    /\ m_out = <<>>

\* generate_next_path keeping the counters of the path before
generate_next_path_no_reset ==
    /\ pc = "loop"
    /\ path_idx < Len(config.paths)
    /\ LET path == config.paths[path_idx + 1]
       IN  /\ path_idx' = path_idx + 1
           /\ patterns' = IF config.gitignore THEN read_gitignore(path) ELSE patterns
           /\ stack' = <<Frame(path, path, 0, <<>>)>>
    /\ pc' = "visiting"
    /\ trace' = <<>>
    /\ UNCHANGED <<config, fsys, path_stats, path_tree, tree_output, sink,
                   m_in, m_out>>

\* generate, lines 25-32: the next path of the loop, up to the call of visit_dir
generate_next_path ==
    /\ pc = "loop"
    /\ path_idx < Len(config.paths)
    /\ LET path == config.paths[path_idx + 1]
       IN  /\ path_idx' = path_idx + 1
           /\ path_stats' = new_stats
           /\ patterns' = IF config.gitignore THEN read_gitignore(path) ELSE patterns
           /\ stack' = <<Frame(path, path, 0, <<>>)>>
    /\ pc' = "visiting"
    /\ trace' = <<>>
    /\ UNCHANGED <<config, fsys, path_tree, tree_output, sink, m_in, m_out>>

\* visit_dir, lines 55-60: deeper than max_depth, return the empty string
visit_dir_too_deep ==
    /\ pc = "visiting"
    /\ Top.phase = "enter"
    /\ \E max_depth \in config.max_depth : Top.level > max_depth
    /\ stack' = Pop
    /\ UNCHANGED <<config, fsys, patterns, pc, path_idx, path_stats, path_tree,
                   tree_output, sink, trace, m_in, m_out>>

\* visit_dir, line 72: read_dir fails and `?` returns the error
visit_dir_read_error ==
    /\ pc = "visiting"
    /\ Top.phase = "enter"
    /\ \A max_depth \in config.max_depth : ~(Top.level > max_depth)
    /\ ~read_dir_ok(Top.dir)
    /\ stack' = Pop
    /\ pc' = "unwinding"
    /\ UNCHANGED <<config, fsys, patterns, path_idx, path_stats, path_tree,
                   tree_output, sink, trace, m_in, m_out>>

\* visit_dir, lines 62-79: the root line, the listing, the sort, the filter
visit_dir_enter ==
    /\ pc = "visiting"
    /\ Top.phase = "enter"
    /\ \A max_depth \in config.max_depth : ~(Top.level > max_depth)
    /\ read_dir_ok(Top.dir)
    /\ \E listing \in ListingOrders(read_dir(Top.dir)) :
         LET f == Top
             display_path == IF config.full_path THEN canonicalize(f.dir) ELSE f.dir
             head == IF f.level = 0
                     THEN <<RootLine(path_string(display_path), f.dir)>>
                     ELSE <<>>
             sorted == sort_by_name(listing)
             keep(name) == should_include_entry(f.dir \o <<name>>, f.base_dir)
             rejected == SelectSeq(sorted, LAMBDA name : ~keep(name))
         IN  /\ stack' = [stack EXCEPT ![Len(stack)] =
                            [f EXCEPT !.phase = "loop",
                                      !.entries = SelectSeq(sorted, keep),
                                      !.output = head]]
             /\ trace' = trace \o [i \in 1..Len(rejected) |->
                                     Event(f.dir \o <<rejected[i]>>, "rejected")]
    /\ UNCHANGED <<config, fsys, patterns, pc, path_idx, path_stats, path_tree,
                   tree_output, sink, m_in, m_out>>

\* visit_dir, lines 82-112: one iteration of the loop, up to the recursive call
visit_dir_entry ==
    /\ pc = "visiting"
    /\ Top.phase = "loop"
    /\ Top.index < Len(Top.entries)
    /\ LET f == Top
           name == f.entries[f.index + 1]
           path == f.dir \o <<name>>
           dir == path_is_dir(path)
           is_last == f.index = Len(f.entries) - 1
           conn == connector_of(is_last)
           line == EntryLine(f.prefix, conn[1],
                             format_display_name(path, name, dir), path)
           g == [f EXCEPT !.index = @ + 1, !.output = Append(@, line)]
           child_prefix == IF conn[2] = "" THEN f.prefix ELSE Append(f.prefix, conn[2])
       IN  /\ path_stats' = count_entry(path_stats, dir)
           /\ stack' = IF dir
                       THEN Append([stack EXCEPT ![Len(stack)] = g],
                                   Frame(path, f.base_dir, f.level + 1, child_prefix))
                       ELSE [stack EXCEPT ![Len(stack)] = g]
           /\ trace' = Append(trace, Event(path, IF dir THEN "dir" ELSE "file"))
    /\ UNCHANGED <<config, fsys, patterns, pc, path_idx, path_tree, tree_output,
                   sink, m_in, m_out>>

\* visit_dir, lines 108-109 and 115: the loop is over, the output goes to the caller
visit_dir_return ==
    /\ pc = "visiting"
    /\ Top.phase = "loop"
    /\ Top.index = Len(Top.entries)
    /\ IF Len(stack) > 1
       THEN /\ stack' = [Pop EXCEPT ![Len(stack) - 1].output = @ \o Top.output]
            /\ UNCHANGED <<pc, path_tree>>
       ELSE /\ stack' = <<>>
            /\ path_tree' = Top.output
            /\ pc' = "returned"
    /\ UNCHANGED <<config, fsys, patterns, path_idx, path_stats, tree_output,
                   sink, trace, m_in, m_out>>

\* visit_dir_propagate with the enclosing visit dropping the error and going on
visit_dir_propagate_swallowed ==
    /\ pc = "unwinding"
    /\ stack # <<>>
    /\ pc' = "visiting"
    /\ UNCHANGED <<config, fsys, patterns, path_idx, path_stats, stack, path_tree,
                   tree_output, sink, trace, m_in, m_out>>

\* visit_dir, line 108: the `?` of an enclosing visit passes the error on
visit_dir_propagate ==
    /\ pc = "unwinding"
    /\ stack # <<>>
    /\ stack' = Pop
    /\ UNCHANGED <<config, fsys, patterns, pc, path_idx, path_stats, path_tree,
                   tree_output, sink, trace, m_in, m_out>>

\* generate_fail handing the buffer built so far to the sink
generate_fail_flush ==
    /\ pc = "unwinding"
    /\ stack = <<>>
    /\ pc' = "failed_visit"
    /\ sink' = Append(sink, tree_output)
    /\ UNCHANGED <<config, fsys, patterns, path_idx, path_stats, stack, path_tree,
                   tree_output, trace, m_in, m_out>>

\* generate, line 32: the `?` of generate returns the error
generate_fail ==
    /\ pc = "unwinding"
    /\ stack = <<>>
    /\ pc' = "failed_visit"
    /\ UNCHANGED <<config, fsys, patterns, path_idx, path_stats, stack, path_tree,
                   tree_output, sink, trace, m_in, m_out>>

\* generate, lines 34-38: the path's tree and its summary join the buffer
generate_push_summary ==
    /\ pc = "returned"
    /\ tree_output' = tree_output \o path_tree
                        \o <<BlankLine, SummaryLine(path_stats.dirs, path_stats.files)>>
    /\ pc' = "loop"
    /\ UNCHANGED <<config, fsys, patterns, path_idx, path_stats, stack, path_tree,
                   sink, trace, m_in, m_out>>

\* generate, line 41, and output_result: the buffer goes to the file or to
\* stdout; creating or writing the file may fail
output_result ==
    /\ pc = "loop"
    /\ path_idx = Len(config.paths)
    /\ \E output_is_file \in BOOLEAN, write_ok \in BOOLEAN :
         IF output_is_file /\ ~write_ok
         THEN pc' = "failed_output" /\ UNCHANGED sink
         ELSE pc' = "done" /\ sink' = Append(sink, tree_output)
    /\ UNCHANGED <<config, fsys, patterns, path_idx, path_stats, stack, path_tree,
                   tree_output, trace, m_in, m_out>>

Next ==
    \/ generate_next_path
    \/ visit_dir_too_deep
    \/ visit_dir_read_error
    \/ visit_dir_enter
    \/ visit_dir_entry
    \/ visit_dir_return
    \/ visit_dir_propagate
    \/ generate_fail
    \/ generate_push_summary
    \/ output_result

Spec == WalkInit /\ [][Next]_vars

(***************************************************************************)
(* main.rs: the standalone program.  Its visit_dir reads the .gitignore of *)
(* every directory it visits, matches against that directory, filters      *)
(* inside the loop and counts the root.  generate_tree pushes the summary, *)
(* passes an error on and writes the buffer as generate does.              *)
(***************************************************************************)
main_matches_pattern(path, base_dir, pats) ==
    LET filename == file_name(path)
        relative_path == strip_prefix(path, base_dir)
        one(raw) ==
            LET p0 == trim(raw)
                is_negation == starts_with(p0, <<BANG>>)
                p1 == IF is_negation THEN Tail(p0) ELSE p0
                is_absolute_pattern == starts_with(p1, <<SLASH>>)
                p2 == trim_start_matches(p1, SLASH)
                is_directory_pattern == ends_with(p2, <<SLASH>>)
                p3 == trim_end_matches(p2, SLASH)
            IN  IF p0 = <<>> \/ starts_with(p0, <<HASH>>) THEN FALSE
                ELSE IF is_absolute_pattern
                THEN /\ \/ relative_path = p3
                        \/ ends_with(relative_path, <<SLASH>> \o p3)
                     /\ ~is_negation
                ELSE IF is_directory_pattern /\ path_is_dir(path)
                THEN /\ \/ filename = p3
                        \/ contains(relative_path, <<SLASH>> \o p3 \o <<SLASH>>)
                     /\ ~is_negation
                ELSE /\ \/ matches_filename_pattern(filename, p3)
                        \/ contains(relative_path, <<SLASH>> \o p3)
                     /\ ~is_negation
    IN  \E k \in 1..Len(pats) : one(pats[k])

\* the four `continue` tests of the loop, lines 219-237
main_entry_included(path, dir, gitignore_patterns) ==
    /\ ~(~config.all /\ starts_with(file_name(path), <<DOT>>))
    /\ ~(config.dirs_only /\ ~path_is_dir(path))
    /\ ~(config.gitignore /\ file_name(path) = DOT_GIT)
    /\ ~(config.gitignore /\ main_matches_pattern(path, dir, gitignore_patterns))

MainFrame(dir, level, prefix) ==
    [dir |-> dir, level |-> level, prefix |-> prefix, phase |-> "enter",
     gitignore_patterns |-> <<>>, entries |-> <<>>, index |-> 0, output |-> <<>>]

\* generate_tree, lines 74-76
main_generate_next_path ==
    /\ pc = "loop"
    /\ path_idx < Len(config.paths)
    /\ path_idx' = path_idx + 1
    /\ path_stats' = new_stats
    /\ stack' = <<MainFrame(config.paths[path_idx + 1], 0, <<>>)>>
    /\ pc' = "visiting"
    /\ trace' = <<>>
    /\ UNCHANGED <<config, fsys, patterns, path_tree, tree_output, sink, m_in, m_out>>

\* visit_dir, lines 195-207: the root is counted, then read_dir fails
main_visit_dir_read_error ==
    /\ pc = "visiting"
    /\ Top.phase = "enter"
    /\ \A max_depth \in config.max_depth : ~(Top.level > max_depth)
    /\ ~read_dir_ok(Top.dir)
    /\ path_stats' = IF Top.level = 0 THEN count_entry(path_stats, TRUE) ELSE path_stats
    /\ trace' = IF Top.level = 0 THEN Append(trace, Event(Top.dir, "root")) ELSE trace
    /\ stack' = Pop
    /\ pc' = "unwinding"
    /\ UNCHANGED <<config, fsys, patterns, path_idx, path_tree, tree_output, sink,
                   m_in, m_out>>

\* visit_dir, lines 188-211: the patterns, the root line and count, the
\* listing and the sort
main_visit_dir_enter ==
    /\ pc = "visiting"
    /\ Top.phase = "enter"
    /\ \A max_depth \in config.max_depth : ~(Top.level > max_depth)
    /\ read_dir_ok(Top.dir)
    /\ \E listing \in ListingOrders(read_dir(Top.dir)) :
         LET f == Top
             display_path == IF config.full_path THEN canonicalize(f.dir) ELSE f.dir
             head == IF f.level = 0
                     THEN <<RootLine(path_string(display_path), f.dir)>>
                     ELSE <<>>
         IN  stack' = [stack EXCEPT ![Len(stack)] =
                         [f EXCEPT !.phase = "loop",
                                   !.gitignore_patterns =
                                       IF config.gitignore THEN read_gitignore(f.dir)
                                       ELSE <<>>,
                                   !.entries = sort_by_name(listing),
                                   !.output = head]]
    /\ path_stats' = IF Top.level = 0 THEN count_entry(path_stats, TRUE) ELSE path_stats
    /\ trace' = IF Top.level = 0 THEN Append(trace, Event(Top.dir, "root")) ELSE trace
    /\ UNCHANGED <<config, fsys, patterns, pc, path_idx, path_tree, tree_output,
                   sink, m_in, m_out>>

\* visit_dir, lines 214-278: one iteration of the loop, up to the recursive call
main_visit_dir_entry ==
    /\ pc = "visiting"
    /\ Top.phase = "loop"
    /\ Top.index < Len(Top.entries)
    /\ LET f == Top
           name == f.entries[f.index + 1]
           path == f.dir \o <<name>>
           dir == path_is_dir(path)
           is_last == f.index = Len(f.entries) - 1
           conn == connector_of(is_last)
           line == EntryLine(f.prefix, conn[1],
                             format_display_name(path, name, dir), path)
           g == [f EXCEPT !.index = @ + 1, !.output = Append(@, line)]
           child_prefix == IF conn[2] = "" THEN f.prefix ELSE Append(f.prefix, conn[2])
       IN  IF ~main_entry_included(path, f.dir, f.gitignore_patterns)
           THEN /\ stack' = [stack EXCEPT ![Len(stack)].index = @ + 1]
                /\ trace' = Append(trace, Event(path, "rejected"))
                /\ UNCHANGED path_stats
           ELSE /\ path_stats' = count_entry(path_stats, dir)
                /\ stack' = IF dir
                            THEN Append([stack EXCEPT ![Len(stack)] = g],
                                        MainFrame(path, f.level + 1, child_prefix))
                            ELSE [stack EXCEPT ![Len(stack)] = g]
                /\ trace' = Append(trace, Event(path, IF dir THEN "dir" ELSE "file"))
    /\ UNCHANGED <<config, fsys, patterns, pc, path_idx, path_tree, tree_output,
                   sink, m_in, m_out>>

MainNext ==
    \/ main_generate_next_path
    \/ visit_dir_too_deep
    \/ main_visit_dir_read_error
    \/ main_visit_dir_enter
    \/ main_visit_dir_entry
    \/ visit_dir_return
    \/ visit_dir_propagate
    \/ generate_fail
    \/ generate_push_summary
    \/ output_result

SpecMain == WalkInit /\ [][MainNext]_vars

(***************************************************************************)
(* Properties of the traversal of TreeGenerator.                           *)
(***************************************************************************)
\* the top-level path being traversed
CurrentBase == config.paths[path_idx]

NestingLevel(path, base) == Len(path) - Len(base)

EntryLines(out) == SelectSeq(out, LAMBDA l : l.kind = "entry")

DirLines(out) == SelectSeq(out, LAMBDA l : l.kind = "entry" /\ path_is_dir(l.path))

Events(what) == SelectSeq(trace, LAMBDA e : e.what = what)

Paths(seq) == [i \in 1..Len(seq) |-> seq[i].path]

RECURSIVE Flatten(_)
Flatten(outs) == IF outs = <<>> THEN <<>> ELSE Head(outs) \o Flatten(Tail(outs))

\* the lines written so far for the path being traversed, in the order of
\* the returned string: each frame's output, outermost first
LinesSoFar ==
    IF pc = "returned" THEN path_tree
    ELSE Flatten([i \in 1..Len(stack) |-> stack[i].output])

\* the summary line generate has just written
LastSummary == tree_output[Len(tree_output)]

PathSummarised == pc = "loop" /\ path_idx >= 1

ChildPaths(dir) == {dir \o <<name>> : name \in read_dir(dir)}

\* C1: the number of directories a path's summary line reports is the number
\* of directory entries written for it plus one for the root itself.
C1_SummaryCountsRoot ==
    PathSummarised =>
        LastSummary.name[1] = Len(DirLines(path_tree)) + 1

\* C4: with max_depth = k no line is written for an entry nested deeper than
\* k below the root (the root's own entries are at level 1), and every entry
\* at level k that passes the filter, in directories that were listed, has a
\* line.
C4_DepthBound ==
    pc = "returned" =>
        \A k \in config.max_depth :
            /\ \A i \in 1..Len(EntryLines(path_tree)) :
                   NestingLevel(EntryLines(path_tree)[i].path, CurrentBase) <= k
            /\ \A i \in 1..Len(trace) :
                   ( /\ trace[i].what # "rejected"
                     /\ NestingLevel(trace[i].path, CurrentBase) = k )
                   => \E j \in 1..Len(path_tree) : path_tree[j].path = trace[i].path

\* the directories whose listing the traversal of the current path has read
\* once it returned: the root and every counted directory within max_depth
ListedDirs ==
    {CurrentBase} \cup
    { trace[i].path : i \in { j \in 1..Len(trace) :
          /\ trace[j].what = "dir"
          /\ \A k \in config.max_depth :
                 NestingLevel(trace[j].path, CurrentBase) <= k } }

\* C5: every entry read during a traversal is exactly one of counted as a
\* file, counted as a directory, rejected by the filter; the two counters
\* are the numbers of entries so counted, and the entries counted are, one
\* for one and in order, the entries a line was written for.
C5_CountsPartitionEntries ==
    pc \in {"visiting", "returned"} =>
        /\ \A i, j \in 1..Len(trace) : trace[i].path = trace[j].path => i = j
        /\ path_stats.files = Len(Events("file"))
        /\ path_stats.dirs = Len(Events("dir"))
        /\ Paths(EntryLines(LinesSoFar))
             = Paths(SelectSeq(trace, LAMBDA e : e.what # "rejected"))
        /\ path_stats.files + path_stats.dirs = Len(EntryLines(LinesSoFar))
        /\ pc = "returned" =>
             {trace[i].path : i \in 1..Len(trace)}
               = UNION {ChildPaths(d) : d \in ListedDirs}

\* C5 witness: a traversal returned having counted a file, counted a
\* directory and rejected an entry
C5_Witness ==
    /\ pc = "returned"
    /\ Events("file") # <<>>
    /\ Events("dir") # <<>>
    /\ Events("rejected") # <<>>

\* the summary lines in the buffer
Summaries == SelectSeq(tree_output, LAMBDA l : l.kind = "summary")

ReadFails ==
    /\ pc = "visiting"
    /\ Top.phase = "enter"
    /\ \A k \in config.max_depth : Top.level <= k
    /\ ~read_dir_ok(Top.dir)

\* C7: when listing a directory fails, the error goes up one enclosing visit
\* at a time until generate returns it; from the failure on no entry is
\* visited or counted, no listing is read again, and the buffer gets no
\* summary line for the path.
C7_ReadFailureAborts ==
    [][ /\ ReadFails => pc' = "unwinding" /\ stack' = Pop
        /\ pc = "unwinding" =>
             /\ pc' \in {"unwinding", "failed_visit"}
             /\ pc' = "unwinding" => stack # <<>> /\ stack' = Pop
             /\ pc' = "failed_visit" => stack = <<>> /\ stack' = <<>>
        /\ pc \in {"unwinding", "failed_visit"} =>
             /\ UNCHANGED <<path_stats, trace, tree_output, sink, path_idx>>
             /\ Len(Summaries) = path_idx - 1
        /\ pc = "failed_visit" => pc' = "failed_visit"
      ]_vars

\* C7 witness: generate returned the error of a listing that failed below
\* the root, after entries of the path had been counted
C7_Witness ==
    /\ pc = "failed_visit"
    /\ path_stats.dirs >= 2
    /\ path_stats.files >= 1

\* p before q in the pre-order walk by ascending names: p is a proper
\* prefix of q, or at the first component where they differ p's is smaller
RECURSIVE PreOrderLess(_, _)
PreOrderLess(p, q) ==
    IF q = <<>> THEN FALSE
    ELSE IF p = <<>> THEN TRUE
    ELSE IF Head(p) # Head(q) THEN cmp_less(Head(p), Head(q))
    ELSE PreOrderLess(Tail(p), Tail(q))

Parent(path) == SubSeq(path, 1, Len(path) - 1)

\* C8: in the returned text the lines of a directory's entries come in
\* strictly ascending byte-wise order of their names, and a directory's line
\* comes before the lines of its own entries, which all come before the line
\* of its next sibling.
C8_SortedPreOrder ==
    pc = "returned" =>
        LET lines == EntryLines(path_tree)
        IN  /\ \A i, j \in 1..Len(lines) :
                   i < j => PreOrderLess(lines[i].path, lines[j].path)
            /\ \A i, j \in 1..Len(lines) :
                   (i < j /\ Parent(lines[i].path) = Parent(lines[j].path))
                   => cmp_less(file_name(lines[i].path), file_name(lines[j].path))
            /\ \A j \in 1..Len(lines) :
                   Parent(lines[j].path) # CurrentBase
                   => \E i \in 1..(j - 1) : lines[i].path = Parent(lines[j].path)

\* C8 witness: a returned text with three sibling lines and a line two
\* levels below one of them
C8_Witness ==
    /\ pc = "returned"
    /\ \E l \in {path_tree[i] : i \in 1..Len(path_tree)} :
           l.kind = "entry" /\ NestingLevel(l.path, CurrentBase) = 3
    /\ Cardinality({ path_tree[i].path : i \in { j \in 1..Len(path_tree) :
           /\ path_tree[j].kind = "entry"
           /\ NestingLevel(path_tree[j].path, CurrentBase) = 1 } }) >= 3

\* C9: with no_indent off, among the lines written for the entries of one
\* directory the last one carries the corner connector and extends the
\* prefix of its descendants by four blanks; every other one carries the tee
\* connector and extends the prefix by the bar.
C9_LastEmittedSibling ==
    (pc = "returned" /\ ~config.no_indent) =>
        LET lines == EntryLines(path_tree)
            last(i) == ~\E j \in (i + 1)..Len(lines) :
                           Parent(lines[j].path) = Parent(lines[i].path)
        IN  \A i \in 1..Len(lines) :
                /\ lines[i].connector
                     = IF last(i) THEN CONNECTOR_LAST ELSE CONNECTOR_MID
                /\ \A j \in 1..Len(lines) :
                       Parent(lines[j].path) = lines[i].path
                       => lines[j].prefix
                            = Append(lines[i].prefix,
                                     IF last(i) THEN PREFIX_LAST ELSE PREFIX_MID)

\* C10: with config.gitignore set no entry named .git passes the filter, at
\* any depth: none gets a line and none is counted.
C10_DotGitRejected ==
    config.gitignore =>
        \A i \in 1..Len(trace) :
            file_name(trace[i].path) = DOT_GIT => trace[i].what = "rejected"

\* a pattern `/body`: a slash, then a body that neither starts nor ends with
\* a slash
Anchored(pattern) ==
    /\ Len(pattern) >= 2
    /\ pattern[1] = SLASH
    /\ pattern[2] # SLASH
    /\ pattern[Len(pattern)] # SLASH

\* the entry passes every rule of the filter other than pattern j
KeptButFor(path, j) ==
    LET name == file_name(path)
        dir == path_is_dir(path)
    IN  /\ config.all \/ ~starts_with(name, <<DOT>>)
        /\ ~config.dirs_only \/ dir
        /\ name # DOT_GIT
        /\ \A k \in 1..Len(patterns) :
               k # j => ~matches_pattern(name, strip_prefix(path, CurrentBase),
                                         patterns[k], dir)

\* C11: every visit of a traversal carries the top-level path as base_dir,
\* and an anchored pattern /body rejects an entry exactly when the entry's
\* path relative to the top-level path is body: the entry whose relative
\* path is body is rejected, and an entry at any other place (one of the
\* same name in a subdirectory included) that passes the rest of the filter
\* is not.
C11_AnchoredAtRoot ==
    (config.gitignore /\ pc \in {"visiting", "returned"}) =>
        /\ \A i \in 1..Len(stack) : stack[i].base_dir = CurrentBase
        /\ \A i \in 1..Len(trace), j \in 1..Len(patterns) :
               Anchored(patterns[j]) =>
                   LET e == trace[i]
                       relative == strip_prefix(e.path, CurrentBase)
                   IN  IF relative = Tail(patterns[j])
                       THEN e.what = "rejected"
                       ELSE KeptButFor(e.path, j) => e.what # "rejected"

\* C11 witness: under the pattern /a the entry a of the root was rejected
\* and the file a of a subdirectory was counted
C11_Witness ==
    /\ config.gitignore
    /\ pc = "returned"
    /\ \E j \in 1..Len(patterns) : patterns[j] = <<SLASH>> \o S_a
    /\ \E i \in 1..Len(trace) :
           trace[i] = Event(CurrentBase \o <<S_a>>, "rejected")
    /\ \E i \in 1..Len(trace) :
           /\ trace[i].what = "file"
           /\ file_name(trace[i].path) = S_a
           /\ NestingLevel(trace[i].path, CurrentBase) = 2

\* the entries below `base` a traversal of `base` alone writes a line for,
\* read off the file system: each component below base passes the filter
\* under the patterns of base, and the directory holding the entry is within
\* max_depth
IncludedBelow(base, pats) ==
    LET passes(path) ==
            /\ config.all \/ ~starts_with(file_name(path), <<DOT>>)
            /\ ~config.dirs_only \/ path_is_dir(path)
            /\ ~config.gitignore \/ path # base \o <<DOT_GIT>>
            /\ ~config.gitignore
                 \/ ~manager_matches(pats, path, base, path_is_dir(path))
    IN  { p \in fsys.dirs \cup fsys.files :
            /\ Len(p) > Len(base)
            /\ SubSeq(p, 1, Len(base)) = base
            /\ \A k \in (Len(base) + 1)..Len(p) : passes(SubSeq(p, 1, k))
            /\ \A max_depth \in config.max_depth :
                   NestingLevel(p, base) - 1 <= max_depth }

\* the counts of a run whose only path is `path`
AloneCounts(path) ==
    LET pats == IF config.gitignore THEN read_gitignore(path) ELSE <<>>
        inc == IncludedBelow(path, pats)
    IN  <<Cardinality(inc \cap fsys.dirs), Cardinality(inc \cap fsys.files)>>

\* the position of the i-th summary line of the buffer (0 for i = 0)
SummaryPos(i) ==
    IF i = 0 THEN 0
    ELSE CHOOSE k \in 1..Len(tree_output) :
             /\ tree_output[k].kind = "summary"
             /\ Len(Summaries) - Len(SelectSeq(SubSeq(tree_output, k + 1, Len(tree_output)),
                                               LAMBDA l : l.kind = "summary")) = i

\* the lines of the buffer after the (i-1)-th summary up to the i-th
Block(i) == SubSeq(tree_output, SummaryPos(i - 1) + 1, SummaryPos(i))

\* the paths whose traversal generate has completed and summarised
PathsSummarised ==
    IF pc \in {"visiting", "unwinding", "failed_visit", "returned"}
    THEN path_idx - 1
    ELSE path_idx

C12_Blocks ==
    /\ Len(Summaries) = PathsSummarised
    /\ tree_output # <<>> => tree_output[Len(tree_output)].kind = "summary"
    /\ \A i \in 1..Len(Summaries) :
           LET b == Block(i)
               n == Len(b)
           IN  /\ n >= 3
               /\ b[1].kind = "root" /\ b[1].path = config.paths[i]
               /\ \A k \in 2..(n - 2) :
                      /\ b[k].kind = "entry"
                      /\ SubSeq(b[k].path, 1, Len(config.paths[i])) = config.paths[i]
               /\ b[n - 1] = BlankLine
               /\ b[n].kind = "summary"
               /\ b[n].name = AloneCounts(config.paths[i])

C12_Counters ==
    /\ (pc = "loop" /\ pc' = "visiting") => path_stats' = new_stats
    /\ ~(pc = "loop" /\ pc' = "visiting") =>
           /\ path_stats'.dirs >= path_stats.dirs
           /\ path_stats'.files >= path_stats.files

\* C12: the counters are zero when the traversal of a path starts and never
\* decrease while it lasts; the buffer is, in input order, one block per
\* path summarised (root line of the path, lines of its entries, blank line,
\* summary line), and each summary line carries the counts the path has when
\* traversed alone.
C12_PathsIndependent == []C12_Blocks /\ [][C12_Counters]_vars

\* C12 witness: two paths were summarised, the first with both counters
\* above zero, the second with other counts
C12_Witness ==
    /\ pc = "loop"
    /\ Len(Summaries) = 2
    /\ Summaries[1].name[1] > 0
    /\ Summaries[1].name[2] > 0
    /\ Summaries[2].name # Summaries[1].name

C13_Sink ==
    /\ Len(sink) <= 1
    /\ sink # <<>> =>
           /\ pc = "done"
           /\ path_idx = Len(config.paths)
           /\ Len(Summaries) = Len(config.paths)
           /\ sink[1] = tree_output
    /\ pc \in {"unwinding", "failed_visit", "failed_output"} => sink = <<>>

C13_Step ==
    /\ sink' # sink =>
           /\ pc = "loop" /\ path_idx = Len(config.paths)
           /\ sink = <<>> /\ sink' = <<tree_output>>
    /\ pc \in {"unwinding", "failed_visit"} =>
           /\ pc' \in {"unwinding", "failed_visit"}
           /\ UNCHANGED <<path_idx, sink, tree_output>>
    /\ pc \in {"failed_visit", "done"} => UNCHANGED <<pc, path_idx, sink>>

\* C13: the sink receives at most one write, the whole buffer, and only once
\* every configured path has been traversed and summarised; when the
\* traversal of a path fails the run ends with the error, the sink stays
\* empty (the blocks of the paths completed before are dropped with the
\* buffer) and the loop takes up no further path.
C13_SinkOnlyOnSuccess == []C13_Sink /\ [][C13_Step]_vars

\* C13 witness: generate returned the error of the second path with the
\* block of the first in the buffer and nothing in the sink
C13_Witness ==
    /\ pc = "failed_visit"
    /\ path_idx = 2
    /\ Len(Summaries) = 1
    /\ sink = <<>>

(***************************************************************************)
(* The matchers applied to drawn inputs.                                   *)
(***************************************************************************)
MaxPatLen == 3
MaxTextLen == 3
MaxPatterns == 2

\* "*.txt", "a.txt", "a.txt.bak", "a?c", "abc", "ac", "keep.txt", "build", "build/"
S_star_txt == <<STAR, DOT, 116, 120, 116>>
S_a_txt == <<97, DOT, 116, 120, 116>>
S_a_txt_bak == <<97, DOT, 116, 120, 116, DOT, 98, 97, 107>>
S_aqc == <<97, QMARK, 99>>
S_abc == <<97, 98, 99>>
S_ac == <<97, 99>>
S_keep_txt == <<107, 101, 101, 112, DOT, 116, 120, 116>>
S_build == <<98, 117, 105, 108, 100>>
S_build_dir == S_build \o <<SLASH>>

GlobExamples ==
    { <<S_star_txt, S_a_txt>>, <<S_star_txt, S_a_txt_bak>>,
      <<S_aqc, S_abc>>, <<S_aqc, S_ac>> }

GlobInputs ==
    { [kind |-> "glob", pattern |-> x[1], text |-> x[2]] :
        x \in (SeqsUpTo({97, 98, STAR, QMARK}, MaxPatLen)
                 \X SeqsUpTo({97, 98}, MaxTextLen)) \cup GlobExamples }

PatternPool ==
    { S_star_txt, <<BANG>> \o S_keep_txt, <<BANG>> \o S_star_txt, S_keep_txt,
      S_build_dir, S_build, <<SLASH>> \o S_a_txt }

EntryPool ==
    { <<S_r, S_keep_txt>>, <<S_r, S_a_txt>>, <<S_r, S_build>>,
      <<S_r, S_s, S_build>>, <<S_r, S_s, S_a_txt>> }

IgnoreInputs ==
    { [kind |-> "ignore", patterns |-> ps, path |-> e, base_dir |-> <<S_r>>,
       is_dir |-> d] :
        ps \in SeqsUpTo(PatternPool, MaxPatterns), e \in EntryPool, d \in BOOLEAN }

WalkIdle ==
    /\ config = <<>>
    /\ fsys = <<>>
    /\ patterns = <<>>
    /\ pc = "idle"
    /\ path_idx = 0
    /\ path_stats = <<>>
    /\ stack = <<>>
    /\ path_tree = <<>>
    /\ tree_output = <<>>
    /\ sink = <<>>
    /\ trace = <<>>

MatchInit ==
    /\ WalkIdle
    /\ m_in \in GlobInputs \cup IgnoreInputs
    /\ m_out = [done |-> FALSE, result |-> FALSE]

apply_matches_filename_pattern ==
    /\ m_in.kind = "glob"
    /\ ~m_out.done
    /\ m_out' = [done |-> TRUE,
                 result |-> matches_filename_pattern(m_in.text, m_in.pattern)]
    /\ UNCHANGED <<m_in, walk_vars>>

apply_matches ==
    /\ m_in.kind = "ignore"
    /\ ~m_out.done
    /\ m_out' = [done |-> TRUE,
                 result |-> manager_matches(m_in.patterns, m_in.path,
                                            m_in.base_dir, m_in.is_dir)]
    /\ UNCHANGED <<m_in, walk_vars>>

MatchNext == apply_matches_filename_pattern \/ apply_matches

SpecMatch == MatchInit /\ [][MatchNext]_vars


(***************************************************************************)
(* Properties of the matchers.                                             *)
(***************************************************************************)
\* The text positions reachable after the first k pattern characters, each
\* `*` standing for any run of characters, `?` for one, the rest for itself
RECURSIVE GlobReach(_, _, _)
GlobReach(p, t, k) ==
    IF k = 0 THEN {0}
    ELSE LET S == GlobReach(p, t, k - 1)
             c == p[k]
         IN  IF c = STAR THEN {j \in 0..Len(t) : \E i \in S : i <= j}
             ELSE IF c = QMARK THEN {i + 1 : i \in {x \in S : x < Len(t)}}
             ELSE {i + 1 : i \in {x \in S : x < Len(t) /\ t[x + 1] = c}}

GlobDenotes(p, t) == Len(t) \in GlobReach(p, t, Len(p))

GlobApplied == m_in.kind = "glob" /\ m_out.done

IgnoreApplied == m_in.kind = "ignore" /\ m_out.done

\* C6: matches_filename_pattern answers true exactly when the pattern, read
\* with `*` as any run of characters, `?` as one character and every other
\* character as itself, denotes the whole text; the four examples of the
\* specification come out true, false, true, false.
C6_WholeTextGlob ==
    GlobApplied =>
        /\ m_out.result = GlobDenotes(m_in.pattern, m_in.text)
        /\ <<m_in.pattern, m_in.text>> \in {<<S_star_txt, S_a_txt>>, <<S_aqc, S_abc>>}
              => m_out.result
        /\ <<m_in.pattern, m_in.text>> \in {<<S_star_txt, S_a_txt_bak>>, <<S_aqc, S_ac>>}
              => ~m_out.result

\* C6 witness: the matcher was applied to a text that holds a match of the
\* pattern only as a proper prefix, and refused it
C6_Witness ==
    /\ GlobApplied
    /\ m_in.pattern = S_star_txt
    /\ m_in.text = S_a_txt_bak
    /\ ~m_out.result

is_negated(pattern) == starts_with(pattern, <<BANG>>)

\* whether the pattern, its negation mark aside, matches the entry
PatternApplies(pattern, path, base_dir, is_dir) ==
    matches_pattern(file_name(path), strip_prefix(path, base_dir),
                    IF is_negated(pattern) THEN Tail(pattern) ELSE pattern, is_dir)

FirstMatchVerdict(pats, path, base_dir, is_dir) ==
    LET hits == {i \in 1..Len(pats) : PatternApplies(pats[i], path, base_dir, is_dir)}
    IN  IF hits = {} THEN FALSE
        ELSE ~is_negated(pats[CHOOSE i \in hits : \A j \in hits : i <= j])

\* C2: matches returns the verdict of the first pattern, in load order, that
\* matches the entry: ignored when that pattern is plain, not ignored when it
\* is negated, whatever the later patterns say.
C2_FirstMatchingPatternWins ==
    IgnoreApplied =>
        m_out.result = FirstMatchVerdict(m_in.patterns, m_in.path,
                                         m_in.base_dir, m_in.is_dir)

\* C3: with the single pattern `build/` loaded, an entry named `build` is
\* ignored exactly when it is a directory.
C3_DirectoryOnlyPattern ==
    ( /\ IgnoreApplied
      /\ m_in.patterns = <<S_build_dir>>
      /\ file_name(m_in.path) = S_build )
    => (m_out.result = m_in.is_dir)

=============================================================================
